---- MODULE Spec2Model ----
(***************************************************************************)
(* A model of the trade-run planner of commands/run_cmd.py: the station    *)
(* eligibility check, the jump-ring expansion of origins and destinations, *)
(* the validation of the run arguments, the via filter and the hop loop.   *)
(*                                                                         *)
(* Python values are modelled as follows.  None, 0 and the empty string    *)
(* are all falsy in the code's tests; an unset numeric option is 0, an     *)
(* unset place is NoPlace, an unset pad-size requirement is the empty set  *)
(* of pad classes.  An exception is the name of its class.                 *)
(***************************************************************************)
EXTENDS Integers, Sequences, FiniteSets, TLC

(***************************************************************************)
(* Bounds of the model.                                                    *)
(***************************************************************************)
MaxItemCount == 1
MaxLsFromStar == 2
MaxDataAge == 2
MaxLy == 2
MaxJumps == 3
MaxAvoid == 1
MaxRadius == 1
MaxViaRoutes == 3
MaxViaPlaces == 3
MaxVia == 2
MaxHops == 2
MaxNewRoutes == 2
MaxScore == 3
MaxExtra == 3

(***************************************************************************)
(* Constants of the program.                                               *)
(***************************************************************************)
MaxHopsAllowed == 64
MaxCapacity == 1000
arbitraryInsuranceBuffer == 42
PruneMinRoutes == 10

(***************************************************************************)
(* Generic helpers.                                                        *)
(***************************************************************************)
Range(s) == {s[i] : i \in 1..Len(s)}

Min(a, b) == IF a < b THEN a ELSE b

Max(a, b) == IF a > b THEN a ELSE b

NoPlace == "None"

(***************************************************************************)
(* Station.checkPadSize lives in tradedb, outside the files modelled here: *)
(* a station accommodates a requirement when no requirement is given or    *)
(* its pad class is one of the classes the requirement lists.              *)
(***************************************************************************)
PadClasses == {"S", "M", "L", "?"}

checkPadSize(stn, maxPadSize) ==
    maxPadSize = {} \/ stn.maxPadSize \in maxPadSize

(***************************************************************************)
(* checkStationSuitability(cmdenv, station, src): the five checks in the   *)
(* order of the code.  src is NoPlace for the non-strict call.             *)
(***************************************************************************)
checkStationSuitability_NoZeroLs(env, stn, src) ==
    IF stn.itemCount = 0
    THEN IF src # NoPlace THEN "NoDataError" ELSE "False"
    ELSE IF env.padSize # {} /\ ~checkPadSize(stn, env.padSize)
    THEN IF src # NoPlace THEN "CommandLineError" ELSE "False"
    ELSE IF env.blackMarket /\ stn.blackMarket # "Y"
    THEN IF src # NoPlace /\ src # "--from" THEN "CommandLineError" ELSE "False"
    ELSE IF env.maxLs # 0 /\ stn.lsFromStar > env.maxLs
    THEN IF src # NoPlace /\ src # "--from" THEN "CommandLineError" ELSE "False"
    ELSE IF env.maxAge # 0 /\ stn.dataAge > env.maxAge
    THEN IF src # NoPlace /\ src # "--from" THEN "CommandLineError" ELSE "False"
    ELSE "True"

checkStationSuitability(env, stn, src) ==
    IF stn.itemCount = 0
    THEN IF src # NoPlace THEN "NoDataError" ELSE "False"
    ELSE IF env.padSize # {} /\ ~checkPadSize(stn, env.padSize)
    THEN IF src # NoPlace THEN "CommandLineError" ELSE "False"
    ELSE IF env.blackMarket /\ stn.blackMarket # "Y"
    THEN IF src # NoPlace /\ src # "--from" THEN "CommandLineError" ELSE "False"
    ELSE IF env.maxLs # 0 /\ (stn.lsFromStar <= 0 \/ stn.lsFromStar > env.maxLs)
    THEN IF src # NoPlace /\ src # "--from" THEN "CommandLineError" ELSE "False"
    ELSE IF env.maxAge # 0 /\ stn.dataAge > env.maxAge
    THEN IF src # NoPlace /\ src # "--from" THEN "CommandLineError" ELSE "False"
    ELSE "True"

\* True exactly when the call returned True (a raise or False is not suitable).
Suitable(env, stn) == checkStationSuitability(env, stn, NoPlace) = "True"

(***************************************************************************)
(* The trade database: systems on a line of light-year positions, each     *)
(* with its stations.  S4 has no station.  The accessors (the stations of  *)
(* a system, a station's system, the systems in range) live in tradedb,    *)
(* outside the files modelled here.                                        *)
(***************************************************************************)
Systems == {"S1", "S2", "S3", "S4"}

Stations == {"a", "b", "c", "d"}

Places == Systems \cup Stations

IsStation(place) == place \in Stations

IsSystem(place) == place \in Systems

SystemOf(stn) ==
    CASE stn = "a" -> "S1"
      [] stn = "b" -> "S1"
      [] stn = "c" -> "S2"
      [] stn = "d" -> "S3"

StationsOf(sys) == {stn \in Stations : SystemOf(stn) = sys}

Pos(sys) ==
    CASE sys = "S1" -> 0
      [] sys = "S2" -> 1
      [] sys = "S3" -> 2
      [] sys = "S4" -> 4

Dist(s1, s2) == IF Pos(s1) > Pos(s2) THEN Pos(s1) - Pos(s2) ELSE Pos(s2) - Pos(s1)

genSystemsInRange(sys, ly) == {dest \in Systems \ {sys} : Dist(sys, dest) <= ly}

(***************************************************************************)
(* expandForJumps(tdb, cmdenv, origins, jumps, srcName).                   *)
(***************************************************************************)
\* jumps == 0: the stations among the origins and all stations of the
\* systems among them.
ExpandNoJumps(origins) ==
    {o \in origins : IsStation(o)}
        \cup UNION {StationsOf(o) : o \in {x \in origins : IsSystem(x)}}

\* The systems the expansion starts from.
OriginSystems(origins) ==
    {SystemOf(p) : p \in {x \in origins : IsStation(x)}}
        \cup {x \in origins : IsSystem(x)}

\* maxLyPer = cmdenv.emptyLyPer or cmdenv.maxLyPer
ChosenLy(env) == IF env.emptyLyPer # 0 THEN env.emptyLyPer ELSE env.maxLyPer

\* A ring whose test forgets the systems already collected.
RingDests_NoVisitedTest(collected, thisJump, env) ==
    {dest \in UNION {genSystemsInRange(sys, ChosenLy(env)) : sys \in thisJump} :
        dest \notin env.avoidPlaces}

\* One ring: the systems added to origSys and to nextJump while the systems
\* of thisJump have their neighbours enumerated.
RingDests(collected, thisJump, env) ==
    {dest \in UNION {genSystemsInRange(sys, ChosenLy(env)) : sys \in thisJump} :
        dest \notin collected /\ dest \notin env.avoidPlaces}

\* The for loop over range(jumps), as a whole.
RECURSIVE ExpandRings(_, _, _, _)
ExpandRings(collected, frontier, n, env) ==
    IF n = 0 \/ frontier = {}
    THEN collected
    ELSE LET new == RingDests(collected, frontier, env)
         IN  ExpandRings(collected \cup new, new, n - 1, env)

\* "Filter down to stations with trade data".
FlattenStations(collected, db, env) ==
    {stn \in Stations :
        /\ SystemOf(stn) \in collected
        /\ db[stn].itemCount # 0
        /\ stn \notin env.avoidPlaces}

expandForJumps(db, env, origins, jumps) ==
    IF jumps = 0
    THEN ExpandNoJumps(origins)
    ELSE FlattenStations(
            ExpandRings(OriginSystems(origins), OriginSystems(origins), jumps, env),
            db, env)

(***************************************************************************)
(* The helpers of validateRunArguments.                                    *)
(***************************************************************************)
\* place.system: a station's system, a system itself.
PlaceSystem(place) == IF IsStation(place) THEN SystemOf(place) ELSE place

\* checkForEmptyStationList: the error raised, "" when it returns.
checkForEmptyStationList(stationList) ==
    IF stationList = {} THEN "NoDataError" ELSE ""

\* checkAnchorNotInVia: the error raised, "" when it returns.
checkAnchorNotInVia(hops, place, viaSet) ==
    IF hops # 2
    THEN ""
    ELSE IF IsStation(place) /\ place \in viaSet
    THEN "CommandLineError"
    ELSE ""

\* filterStationSet: "filtered" is computed and the list passed in is what
\* is tested and returned.
filterStationSet(env, db, stnList) ==
    IF stnList = {}
    THEN stnList
    ELSE LET filtered == {place \in stnList :
                            ~(IsStation(place) /\ ~Suitable(env, db[place]))}
         IN  IF stnList = {} THEN {} ELSE stnList

\* The first error of a sequence of stage outcomes, "" when there is none.
FirstError(errs) ==
    IF \E i \in 1..Len(errs) : errs[i] # ""
    THEN errs[CHOOSE i \in 1..Len(errs) :
                /\ errs[i] # ""
                /\ \A j \in 1..(i - 1) : errs[j] = ""]
    ELSE ""

\* Lines 498-513.
ScalarChecks(env) ==
    IF env.credits < 0 THEN "CommandLineError"
    ELSE IF env.routes < 1 THEN "CommandLineError"
    ELSE IF env.routes > 1 /\ env.checklist THEN "CommandLineError"
    ELSE IF env.hops < 1 THEN "CommandLineError"
    ELSE IF env.hops > MaxHopsAllowed THEN "CommandLineError"
    ELSE IF env.maxJumpsPer < 0 THEN "CommandLineError"
    ELSE ""

\* Lines 515-548: the origins, or the error raised.  isList tells the list
\* built from the whole database from the set expandForJumps returns.
ValidateOrigins(db, env) ==
    IF env.origPlace # NoPlace
    THEN IF IsSystem(env.origPlace) /\ StationsOf(env.origPlace) = {}
         THEN [err |-> "CommandLineError", stations |-> {}, isList |-> FALSE]
         ELSE LET strict ==
                    IF IsSystem(env.origPlace)
                    THEN "True"
                    ELSE checkStationSuitability(env, db[env.origPlace], "--from")
                  first ==
                    IF IsSystem(env.origPlace)
                    THEN {stn \in StationsOf(env.origPlace) : Suitable(env, db[stn])}
                    ELSE {env.origPlace}
                  expanded == expandForJumps(db, env, first, env.startJumps)
              IN  IF strict \in {"NoDataError", "CommandLineError"}
                  THEN [err |-> strict, stations |-> {}, isList |-> FALSE]
                  ELSE [err |-> checkForEmptyStationList(expanded),
                        stations |-> expanded, isList |-> FALSE]
    ELSE [err |-> IF env.startJumps # 0 THEN "CommandLineError" ELSE "",
          stations |-> {stn \in Stations : Suitable(env, db[stn])},
          isList |-> TRUE]

\* The destinations taken without the strict check of a --to station.
ValidateDestinations_NoStrictCheck(db, env) ==
    IF env.destPlace # NoPlace
    THEN LET expanded == expandForJumps(db, env, {env.destPlace}, env.endJumps)
         IN  [err |-> checkForEmptyStationList(expanded),
              stations |-> expanded, goalSystem |-> env.goalSystem]
    ELSE IF env.endJumps # 0
    THEN [err |-> "CommandLineError", stations |-> {}, goalSystem |-> env.goalSystem]
    ELSE IF env.goalSystem # NoPlace
    THEN IF env.origPlace = NoPlace
         THEN [err |-> "CommandLineError", stations |-> {},
               goalSystem |-> env.goalSystem]
         ELSE [err |-> "", stations |-> {},
               goalSystem |-> PlaceSystem(env.goalSystem)]
    ELSE [err |-> "", stations |-> {}, goalSystem |-> NoPlace]

\* Lines 550-574: the destinations ({} stands for None), the goal system
\* as resolved, or the error raised.
ValidateDestinations(db, env) ==
    IF env.destPlace # NoPlace
    THEN LET strict ==
                IF IsStation(env.destPlace)
                THEN checkStationSuitability(env, db[env.destPlace], "--to")
                ELSE "True"
             expanded == expandForJumps(db, env, {env.destPlace}, env.endJumps)
         IN  IF strict \in {"NoDataError", "CommandLineError"}
             THEN [err |-> strict, stations |-> {}, goalSystem |-> env.goalSystem]
             ELSE [err |-> checkForEmptyStationList(expanded),
                   stations |-> expanded, goalSystem |-> env.goalSystem]
    ELSE IF env.endJumps # 0
    THEN [err |-> "CommandLineError", stations |-> {}, goalSystem |-> env.goalSystem]
    ELSE IF env.goalSystem # NoPlace
    THEN IF env.origPlace = NoPlace
         THEN [err |-> "CommandLineError", stations |-> {},
               goalSystem |-> env.goalSystem]
         ELSE [err |-> "", stations |-> {},
               goalSystem |-> PlaceSystem(env.goalSystem)]
    ELSE [err |-> "", stations |-> {}, goalSystem |-> NoPlace]

\* Lines 578-580: a list never equals a set, so the test can only hit when
\* both came from expandForJumps.
SameToFrom(env, org, dst) ==
    IF /\ env.hops = 1
       /\ Cardinality(org.stations) = 1
       /\ Cardinality(dst.stations) = 1
       /\ ~org.isList
       /\ org.stations = dst.stations
    THEN "CommandLineError"
    ELSE ""

\* Lines 582-594.
ViaSystems(viaSet) == {PlaceSystem(place) : place \in viaSet}

ViaPriceData(db, viaSet) ==
    IF \E place \in viaSet : IsStation(place) /\ db[place].itemCount = 0
    THEN "NoDataError"
    ELSE ""

\* Lines 599-609.
ViaAvoidConflict(env, viaSet) ==
    IF \E via \in viaSet :
            IF IsStation(via)
            THEN via \in env.avoidPlaces \/ SystemOf(via) \in env.avoidPlaces
            ELSE via \in env.avoidPlaces
    THEN "CommandLineError"
    ELSE ""

\* Lines 613-619.
FixedRoutePoints(env) ==
    (IF env.origPlace # NoPlace THEN 1 ELSE 0)
        + (IF env.destPlace # NoPlace THEN 1 ELSE 0)

AdhocRoutePoints(env) == (env.hops + 1) - FixedRoutePoints(env)

\* Lines 620-626.
ViaCount(env, viaSet) ==
    IF Cardinality(ViaSystems(viaSet)) > AdhocRoutePoints(env)
    THEN "CommandLineError"
    ELSE ""

\* Lines 629-647.
CargoChecks(env) ==
    IF ~env.capacityGiven THEN "CommandLineError"
    ELSE IF ~env.maxLyPerGiven THEN "CommandLineError"
    ELSE IF env.capacity < 0 THEN "CommandLineError"
    ELSE IF env.capacity > MaxCapacity THEN "CommandLineError"
    ELSE IF env.limit # 0 /\ env.limit > env.capacity THEN "CommandLineError"
    ELSE IF env.limit # 0 /\ env.limit < 0 THEN "CommandLineError"
    ELSE IF env.insurance # 0
            /\ env.insurance >= env.credits + arbitraryInsuranceBuffer
    THEN "CommandLineError"
    ELSE ""

\* Lines 656-667.  Indexing the set expandForJumps returned, and raising a
\* string, both end in a TypeError.
UniqueChecks(env, org, dst, viaSet) ==
    IF env.unique /\ env.hops >= Cardinality(Stations)
    THEN "CommandLineError"
    ELSE IF ~env.unique
    THEN ""
    ELSE IF Cardinality(org.stations) = 1 /\ Cardinality(dst.stations) = 1
    THEN "TypeError"
    ELSE IF viaSet = {}
    THEN ""
    ELSE IF /\ Cardinality(org.stations) = 1
            /\ (~org.isList \/ org.stations \subseteq viaSet)
    THEN "TypeError"
    ELSE IF Cardinality(dst.stations) = 1
    THEN "TypeError"
    ELSE ""

\* Lines 672-678: the error raised, "" when the prune options pass.
PruneChecks(env) ==
    IF env.pruneScores # 0 /\ env.pruneHops # 0
    THEN IF env.pruneScores > 100 THEN "CommandLineError"
         ELSE IF env.pruneHops < 2 THEN "CommandLineError"
         ELSE ""
    ELSE ""

PruneEnabled(env) == env.pruneScores # 0 /\ env.pruneHops # 0

(***************************************************************************)
(* validateRunArguments(tdb, cmdenv): err is the exception raised, "" when *)
(* the function returns; the other fields are what it leaves in cmdenv.    *)
(***************************************************************************)
validateRunArguments(db, env) ==
    LET org == ValidateOrigins(db, env)
        dst == ValidateDestinations(db, env)
        viaSet == env.viaPlaces
        err == FirstError(<<
            ScalarChecks(env),
            org.err,
            dst.err,
            SameToFrom(env, org, dst),
            ViaPriceData(db, viaSet),
            checkAnchorNotInVia(env.hops, env.origPlace, viaSet),
            checkAnchorNotInVia(env.hops, env.destPlace, viaSet),
            ViaAvoidConflict(env, viaSet),
            ViaCount(env, viaSet),
            CargoChecks(env),
            UniqueChecks(env, org, dst, viaSet),
            PruneChecks(env)>>)
    IN  [err |-> err,
         origins |->
            IF ~(IsStation(env.origPlace)) /\ env.startJumps = 0
            THEN filterStationSet(env, db, org.stations)
            ELSE org.stations,
         destinations |->
            IF ~(IsStation(env.destPlace)) /\ env.endJumps = 0
            THEN filterStationSet(env, db, dst.stations)
            ELSE dst.stations,
         viaSet |-> filterStationSet(env, db, viaSet),
         goalSystem |-> dst.goalSystem,
         adhocHops |-> AdhocRoutePoints(env) - 1,
         maxUnits |-> IF env.limit # 0 THEN env.limit ELSE env.capacity,
         pruneScores |-> IF PruneEnabled(env) THEN env.pruneScores ELSE 0,
         pruneHops |-> IF PruneEnabled(env) THEN env.pruneHops ELSE 0]

(***************************************************************************)
(* filterByVia(routes, viaSet, viaStartPos).  A route is a record of its   *)
(* stations (route.route) and its score.                                   *)
(***************************************************************************)
\* Lines 691-694: the positions of the route, from viaStartPos on, whose
\* station or whose station's system is in the via set.
ViaMet(route, viaSet, viaStartPos) ==
    Cardinality({i \in (viaStartPos + 1)..Len(route.route) :
                    \/ route.route[i] \in viaSet
                    \/ SystemOf(route.route[i]) \in viaSet})

\* Lines 695-703: what one route does to matchedRoutes, partialRoutes and
\* maxMet.
ViaScanOne(acc, route, met, viaSet) ==
    IF met = 0
    THEN acc
    ELSE IF met >= Cardinality(viaSet)
    THEN [acc EXCEPT !.matchedRoutes = Append(@, route)]
    ELSE LET cleared ==
                IF met > acc.maxMet
                THEN [acc.partialRoutes EXCEPT ![met] = <<>>]
                ELSE acc.partialRoutes
         IN  IF met >= acc.maxMet
             THEN [acc EXCEPT !.maxMet = met,
                              !.partialRoutes =
                                    [cleared EXCEPT ![met] = Append(@, route)]]
             ELSE [acc EXCEPT !.partialRoutes = cleared]

\* Lines 687-703: the loop over the routes, from route i on.
RECURSIVE ViaScan(_, _, _, _, _)
ViaScan(routes, i, viaSet, viaStartPos, acc) ==
    IF i > Len(routes)
    THEN acc
    ELSE ViaScan(routes, i + 1, viaSet, viaStartPos,
                 ViaScanOne(acc, routes[i],
                            ViaMet(routes[i], viaSet, viaStartPos), viaSet))

NoCaution == <<>>

\* The caution: its text and the count formatted into it.
ViaCaution(maxMet) ==
    <<"SORRY: No runs visited all of your via destinations. Listing runs that matched at least",
      maxMet>>

\* err is the exception raised, "" when the function returns.
filterByVia(routes, viaSet, viaStartPos) ==
    IF routes = <<>>
    THEN [err |-> "", routes |-> <<>>, caution |-> NoCaution]
    ELSE LET acc == ViaScan(routes, 1, viaSet, viaStartPos,
                        [matchedRoutes |-> <<>>,
                         partialRoutes |-> [n \in 1..Cardinality(viaSet) |-> <<>>],
                         maxMet |-> 0])
         IN  IF acc.matchedRoutes # <<>>
             THEN [err |-> "", routes |-> acc.matchedRoutes, caution |-> NoCaution]
             ELSE IF acc.maxMet = 0
             THEN [err |-> "NoDataError", routes |-> <<>>, caution |-> NoCaution]
             ELSE [err |-> "", routes |-> acc.partialRoutes[acc.maxMet],
                   caution |-> ViaCaution(acc.maxMet)]

(***************************************************************************)
(* The route calculator (tradecalc), outside the files modelled here.      *)
(* Routes rank by score, the best (highest) first; list.sort is stable.    *)
(* getBestHops extends routes by one profitable hop each, towards the      *)
(* stations of restrictTo when it is given, and returns the new routes in  *)
(* no particular order.                                                    *)
(***************************************************************************)
\* The credits a hop between two stations gains; 0 when no trade pays.
HopGain(src, dst) ==
    CASE src = "a" /\ dst = "b" -> 2
      [] src = "a" /\ dst = "c" -> 1
      [] src = "b" /\ dst = "a" -> 1
      [] src = "b" /\ dst = "c" -> 3
      [] src = "c" /\ dst = "a" -> 2
      [] src = "c" /\ dst = "b" -> 1
      [] OTHER -> 0

\* tdb.tradingCount
TradingCount ==
    Cardinality({pair \in Stations \X Stations : HopGain(pair[1], pair[2]) > 0})

Last(seq) == seq[Len(seq)]

\* Route.__lt__: a ranks before b.
RanksBefore(a, b) == a.score > b.score

\* routes.sort(): a stable insertion of each route after the routes that do
\* not rank behind it.
RECURSIVE SortByRank(_)
SortByRank(routes) ==
    IF routes = <<>>
    THEN <<>>
    ELSE LET rest == SortByRank(SubSeq(routes, 1, Len(routes) - 1))
             r == Last(routes)
             k == Cardinality({i \in 1..Len(rest) : ~RanksBefore(r, rest[i])})
         IN  SubSeq(rest, 1, k) \o <<r>> \o SubSeq(rest, k + 1, Len(rest))

IsRankSorted(routes) ==
    \A i \in 1..(Len(routes) - 1) : ~RanksBefore(routes[i + 1], routes[i])

\* route.plus(dst, ...): the route extended by one hop.
RoutePlus(route, dst) ==
    [route |-> Append(route.route, dst),
     hops |-> Append(route.hops, <<Last(route.route), dst>>),
     jumps |-> Append(route.jumps, <<Last(route.route), dst>>),
     score |-> route.score + HopGain(Last(route.route), dst)]

\* The hops getBestHops may add: a profitable hop from the end of one of
\* the routes to a station restrictTo admits ({} stands for None).
Extensions(routes, restrictTo) ==
    {RoutePlus(routes[p[1]], p[2]) :
        p \in {q \in (1..Len(routes)) \X Stations :
                /\ HopGain(Last(routes[q[1]].route), q[2]) > 0
                /\ \/ restrictTo = {}
                   \/ q[2] \in restrictTo
                   \/ SystemOf(q[2]) \in restrictTo}}

\* Every list getBestHops may return: up to MaxNewRoutes of the extensions,
\* each once, in any order.
getBestHops(routes, restrictTo) ==
    {list \in UNION {[1..n -> Extensions(routes, restrictTo)] : n \in 0..MaxNewRoutes} :
        \A i, j \in 1..Len(list) : i # j => list[i] # list[j]}

(***************************************************************************)
(* The steps of run().                                                     *)
(***************************************************************************)
\* Lines 741-747: a route of no hop for each origin that is not avoided,
\* whose system is not avoided and whose pad fits.  The origins are a set:
\* the seeds are taken in some order, which nothing below depends on.
RECURSIVE SeqOfSet(_)
SeqOfSet(set) ==
    IF set = {}
    THEN <<>>
    ELSE LET x == CHOOSE y \in set : TRUE
         IN  <<x>> \o SeqOfSet(set \ {x})

\* The seeding with routes that start with a jump list on record.
SeedRoutes_WithJump(db, env, origins) ==
    LET kept == {src \in origins :
                    /\ src \notin env.avoidPlaces
                    /\ SystemOf(src) \notin env.avoidPlaces
                    /\ checkPadSize(db[src], env.padSize)}
        order == SeqOfSet(kept)
    IN  [i \in 1..Len(order) |->
            [route |-> <<order[i]>>, hops |-> <<>>,
             jumps |-> <<<<order[i], order[i]>>>>, score |-> 0]]

SeedRoutes(db, env, origins) ==
    LET kept == {src \in origins :
                    /\ src \notin env.avoidPlaces
                    /\ SystemOf(src) \notin env.avoidPlaces
                    /\ checkPadSize(db[src], env.padSize)}
        order == SeqOfSet(kept)
    IN  [i \in 1..Len(order) |->
            [route |-> <<order[i]>>, hops |-> <<>>, jumps |-> <<>>,
             score |-> 0]]

\* Line 750.
ViaStartPos(env) == IF env.origPlace # NoPlace THEN 1 ELSE 0

\* Lines 765-769 with the two tests in the other order.
RestrictTo_ViaFirst(hopNo, numHops, stopStations, viaSet, adhocHops) ==
    IF Cardinality(viaSet) > adhocHops
    THEN viaSet
    ELSE IF hopNo = numHops - 1 /\ stopStations # {}
    THEN stopStations
    ELSE {}

\* Lines 765-769: restrictTo of one hop ({} stands for None).
RestrictTo(hopNo, numHops, stopStations, viaSet, adhocHops) ==
    IF hopNo = numHops - 1 /\ stopStations # {}
    THEN stopStations
    ELSE IF Cardinality(viaSet) > adhocHops
    THEN viaSet
    ELSE {}

\* routes[:n] of Python, n negative counting from the end.
SliceTo(routes, n) ==
    IF n >= 0
    THEN SubSeq(routes, 1, Min(n, Len(routes)))
    ELSE SubSeq(routes, 1, Max(Len(routes) + n, 0))

\* Lines 771-772: the top-N cut.
TopNCut(routes, maxRoutes, hopNo) ==
    IF maxRoutes # 0 /\ hopNo >= 1
    THEN SliceTo(routes, maxRoutes)
    ELSE routes

\* The test of line 774 without the minimum of candidates.
ScoreCutApplies_NoMinimum(routes, pruneScores, pruneHops, hopNo) ==
    /\ pruneScores # 0
    /\ hopNo + 1 >= pruneHops

\* Line 774: whether the score-ratio cut applies.
ScoreCutApplies(routes, pruneScores, pruneHops, hopNo) ==
    /\ pruneScores # 0
    /\ hopNo + 1 >= pruneHops
    /\ Len(routes) > PruneMinRoutes

\* Lines 779-780: pop the last route while its score is below
\* bestScore * pruneScores / 100; popping the last one leaves routes[-1]
\* without a route to read (an IndexError).
RECURSIVE PopBelow(_, _, _)
PopBelow(routes, bestScore, pruneScores) ==
    IF routes = <<>>
    THEN <<>>
    ELSE IF Last(routes).score * 100 < bestScore * pruneScores
    THEN PopBelow(SubSeq(routes, 1, Len(routes) - 1), bestScore, pruneScores)
    ELSE routes

\* Lines 774-781: the score-ratio cut.
ScoreCut(routes, pruneScores, pruneHops, hopNo) ==
    IF ScoreCutApplies(routes, pruneScores, pruneHops, hopNo)
    THEN LET sorted == SortByRank(routes)
         IN  PopBelow(sorted, sorted[1].score, pruneScores)
    ELSE routes

\* Lines 771-781: both cuts.
Prune(routes, cfg, maxRoutes, hopNo) ==
    ScoreCut(TopNCut(routes, maxRoutes, hopNo), cfg.pruneScores, cfg.pruneHops, hopNo)

EndsInGoal(route, goalSystem) == SystemOf(Last(route.route)) = goalSystem

\* The goal sort without the sort: the routes as the expansion left them.
GoalSort_NoSort(routes, goalSystem) == routes

\* Lines 820-823: the stable sort that puts the routes ending in the goal
\* system first.
GoalSort(routes, goalSystem) ==
    LET InGoal(r) == EndsInGoal(r, goalSystem)
        NotInGoal(r) == ~EndsInGoal(r, goalSystem)
    IN  SelectSeq(routes, InGoal) \o SelectSeq(routes, NotInGoal)

(***************************************************************************)
(* The state.  Each group of variables belongs to one of the operations of *)
(* the program; a specification drives one group and leaves the others     *)
(* idle.                                                                   *)
(***************************************************************************)
VARIABLES
    sStation,   \* checkStationSuitability: the station examined
    sEnv,       \* checkStationSuitability: the eligibility options
    sSrc,       \* checkStationSuitability: the src argument
    sRes,       \* checkStationSuitability: "pending", or what the call did
    eDb,        \* expandForJumps: tdb, the record of every station
    eEnv,       \* expandForJumps: emptyLyPer, maxLyPer, avoidPlaces
    eOrigins,   \* expandForJumps: the origins argument
    eJumps,     \* expandForJumps: the jumps argument
    ePc,        \* expandForJumps: "call", "loop", "done" (or "idle")
    origSys,    \* expandForJumps: the systems collected so far
    nextJump,   \* expandForJumps: the frontier of the next ring
    jump,       \* expandForJumps: rings processed so far
    placed,     \* history: how often each system was put in a frontier
    enumerated, \* history: how often each system had its neighbours listed
    eResult,    \* expandForJumps: the set of stations returned
    vDb,        \* validateRunArguments: tdb, the record of every station
    vEnv,       \* validateRunArguments: cmdenv as the parser left it
    vPc,        \* validateRunArguments: "call", "done" (or "idle")
    vRes,       \* validateRunArguments: the error raised and cmdenv's new fields
    fRoutes,    \* filterByVia: the routes argument
    fViaSet,    \* filterByVia: the viaSet argument
    fStartPos,  \* filterByVia: the viaStartPos argument
    fPc,        \* filterByVia: "call", "done" (or "idle")
    fRes,       \* filterByVia: the error raised, the routes and the caution
    rDb,        \* run: tdb, the record of every station
    rEnv,       \* run: cmdenv as the parser left it
    rCfg,       \* run: what validateRunArguments left in cmdenv
    rPc,        \* run: "start", "prune", "expand", "finish", "done", "raised"
    routes,     \* run: the candidate routes
    hopNo,      \* run: the hop of the loop
    restrictTo, \* run: restrictTo of the hop ({} stands for None)
    exception,  \* run: results.summary.exception, message by message
    data,       \* run: results.data
    rErr,       \* run: the exception raised, "" when none
    before,     \* history: the candidates of the hop before its pruning
    expansions, \* history: the calls of getBestHops so far
    stop        \* history: why the hop loop ended

suitVars == <<sStation, sEnv, sSrc, sRes>>

expVars == <<eDb, eEnv, eOrigins, eJumps, ePc, origSys, nextJump, jump,
             placed, enumerated, eResult>>

valVars == <<vDb, vEnv, vPc, vRes>>

viaVars == <<fRoutes, fViaSet, fStartPos, fPc, fRes>>

runVars == <<rDb, rEnv, rCfg, rPc, routes, hopNo, restrictTo, exception, data,
             rErr, before, expansions, stop>>

vars == <<suitVars, expVars, valVars, viaVars, runVars>>

(***************************************************************************)
(* Station records.                                                        *)
(***************************************************************************)
StationRecs ==
    [itemCount : 0..MaxItemCount,
     maxPadSize : PadClasses,
     blackMarket : {"Y", "N", "?"},
     lsFromStar : 0..(MaxLsFromStar + 1),
     dataAge : 0..(MaxDataAge + 1)]

\* A station that passes every check of every configuration of the model.
GoodStation ==
    [itemCount |-> MaxItemCount, maxPadSize |-> "L", blackMarket |-> "Y",
     lsFromStar |-> 1, dataAge |-> 0]

(***************************************************************************)
(* Specification SpecSuit: checkStationSuitability on every station record *)
(* and every combination of the eligibility options.                       *)
(***************************************************************************)
PadRequirements == {{}, {"L"}, {"M", "L"}, {"M", "L", "?"}}

SuitEnvs ==
    [padSize : PadRequirements,
     blackMarket : BOOLEAN,
     maxLs : 0..MaxLsFromStar,
     maxAge : 0..MaxDataAge]

SuitIdle ==
    /\ sStation = GoodStation
    /\ sEnv = [padSize |-> {}, blackMarket |-> FALSE, maxLs |-> 0, maxAge |-> 0]
    /\ sSrc = NoPlace
    /\ sRes = "idle"

ExpIdle ==
    /\ eDb = [stn \in Stations |-> GoodStation]
    /\ eEnv = [emptyLyPer |-> 0, maxLyPer |-> 1, avoidPlaces |-> {}]
    /\ eOrigins = {}
    /\ eJumps = 0
    /\ ePc = "idle"
    /\ origSys = {}
    /\ nextJump = {}
    /\ jump = 0
    /\ placed = [sys \in Systems |-> 0]
    /\ enumerated = [sys \in Systems |-> 0]
    /\ eResult = {}

\* cmdenv with the defaults of the parser and the options a run needs.
BaseEnv ==
    [credits |-> 1000, routes |-> 1, checklist |-> FALSE, hops |-> 2,
     maxJumpsPer |-> 2, origPlace |-> NoPlace, destPlace |-> NoPlace,
     startJumps |-> 0, endJumps |-> 0, goalSystem |-> NoPlace,
     viaPlaces |-> {}, avoidPlaces |-> {}, capacityGiven |-> TRUE,
     capacity |-> 10, maxLyPerGiven |-> TRUE, maxLyPer |-> 1,
     emptyLyPer |-> 0, limit |-> 0, insurance |-> 0, unique |-> FALSE,
     pruneScores |-> 0, pruneHops |-> 3, padSize |-> {},
     blackMarket |-> FALSE, maxLs |-> 0, maxAge |-> 0, maxRoutes |-> 0]

NoResult ==
    [err |-> "", origins |-> {}, destinations |-> {}, viaSet |-> {},
     goalSystem |-> NoPlace, adhocHops |-> 0, maxUnits |-> 0,
     pruneScores |-> 0, pruneHops |-> 0]

ValIdle ==
    /\ vDb = [stn \in Stations |-> GoodStation]
    /\ vEnv = BaseEnv
    /\ vPc = "idle"
    /\ vRes = NoResult

ViaIdle ==
    /\ fRoutes = <<>>
    /\ fViaSet = {}
    /\ fStartPos = 0
    /\ fPc = "idle"
    /\ fRes = [err |-> "", routes |-> <<>>, caution |-> NoCaution]

RunIdle ==
    /\ rDb = [stn \in Stations |-> GoodStation]
    /\ rEnv = BaseEnv
    /\ rCfg = NoResult
    /\ rPc = "idle"
    /\ routes = <<>>
    /\ hopNo = 0
    /\ restrictTo = {}
    /\ exception = <<>>
    /\ data = <<>>
    /\ rErr = ""
    /\ before = <<>>
    /\ expansions = 0
    /\ stop = ""

SuitInit ==
    /\ sStation \in StationRecs
    /\ sEnv \in SuitEnvs
    /\ sSrc = NoPlace
    /\ sRes = "pending"
    /\ ExpIdle
    /\ ValIdle
    /\ ViaIdle
    /\ RunIdle

\* One call of checkStationSuitability with the given src.
CheckSuitability(src) ==
    /\ sRes = "pending"
    /\ sSrc' = src
    /\ sRes' = checkStationSuitability(sEnv, sStation, src)
    /\ UNCHANGED <<sStation, sEnv>>
    /\ UNCHANGED <<expVars, valVars, viaVars, runVars>>

SuitNext == \E src \in {NoPlace, "--from", "--to"} : CheckSuitability(src)

SpecSuit == SuitInit /\ [][SuitNext]_vars

(***************************************************************************)
(* Specification SpecExpand: expandForJumps, one ring of its loop at a     *)
(* time.                                                                   *)
(***************************************************************************)
\* The origins the callers pass: one place, or some stations of one system.
OriginLists ==
    {{p} : p \in Places}
        \cup {StationsOf(sys) : sys \in {x \in Systems : Cardinality(StationsOf(x)) > 1}}

AvoidLists == {avoid \in SUBSET Places : Cardinality(avoid) <= MaxAvoid}

ExpandInit ==
    /\ eDb \in [Stations -> {[GoodStation EXCEPT !.itemCount = n] :
                                n \in {0, MaxItemCount}}]
    /\ eEnv \in [emptyLyPer : 0..MaxLy, maxLyPer : 1..MaxLy,
                 avoidPlaces : AvoidLists]
    /\ eOrigins \in OriginLists
    /\ eJumps \in 0..MaxJumps
    /\ ePc = "call"
    /\ origSys = {}
    /\ nextJump = {}
    /\ jump = 0
    /\ placed = [sys \in Systems |-> 0]
    /\ enumerated = [sys \in Systems |-> 0]
    /\ eResult = {}
    /\ SuitIdle
    /\ ValIdle
    /\ ViaIdle
    /\ RunIdle

\* Lines 314-342: the jumps == 0 return, or the set-up of the ring loop.
ExpandBegin ==
    /\ ePc = "call"
    /\ IF eJumps = 0
       THEN /\ eResult' = ExpandNoJumps(eOrigins)
            /\ ePc' = "done"
            /\ UNCHANGED <<origSys, nextJump, placed>>
       ELSE /\ origSys' = OriginSystems(eOrigins)
            /\ nextJump' = OriginSystems(eOrigins)
            /\ placed' = [sys \in Systems |->
                            IF sys \in OriginSystems(eOrigins) THEN 1 ELSE 0]
            /\ ePc' = "loop"
            /\ UNCHANGED eResult
    /\ UNCHANGED <<eDb, eEnv, eOrigins, eJumps, jump, enumerated>>
    /\ UNCHANGED <<suitVars, valVars, viaVars, runVars>>

\* Lines 343-357: one iteration of "for jump in range(jumps)" that does not
\* break.
ExpandRing ==
    /\ ePc = "loop"
    /\ jump < eJumps
    /\ nextJump # {}
    /\ LET new == RingDests(origSys, nextJump, eEnv)
       IN  /\ origSys' = origSys \cup new
           /\ nextJump' = new
           /\ placed' = [sys \in Systems |->
                            IF sys \in new THEN placed[sys] + 1 ELSE placed[sys]]
    /\ enumerated' = [sys \in Systems |->
                        IF sys \in nextJump THEN enumerated[sys] + 1
                        ELSE enumerated[sys]]
    /\ jump' = jump + 1
    /\ UNCHANGED <<eDb, eEnv, eOrigins, eJumps, ePc, eResult>>
    /\ UNCHANGED <<suitVars, valVars, viaVars, runVars>>

\* Lines 344-345 and 366-380: the loop is over (range exhausted, or the
\* break on an empty frontier); the stations are collected and returned.
ExpandReturn ==
    /\ ePc = "loop"
    /\ (jump >= eJumps \/ nextJump = {})
    /\ eResult' = FlattenStations(origSys, eDb, eEnv)
    /\ ePc' = "done"
    /\ UNCHANGED <<eDb, eEnv, eOrigins, eJumps, origSys, nextJump, jump,
                   placed, enumerated>>
    /\ UNCHANGED <<suitVars, valVars, viaVars, runVars>>

ExpandNext == ExpandBegin \/ ExpandRing \/ ExpandReturn

SpecExpand == ExpandInit /\ [][ExpandNext]_vars

(***************************************************************************)
(* Specification SpecValidate: validateRunArguments on a database whose    *)
(* stations each pass every check or fail one of them, with the            *)
(* eligibility options all unset or all set.                               *)
(***************************************************************************)
StationProfiles ==
    {GoodStation,
     [GoodStation EXCEPT !.itemCount = 0],
     [GoodStation EXCEPT !.maxPadSize = "M"],
     [GoodStation EXCEPT !.blackMarket = "N"],
     [GoodStation EXCEPT !.lsFromStar = 0],
     [GoodStation EXCEPT !.lsFromStar = MaxLsFromStar + 1],
     [GoodStation EXCEPT !.dataAge = MaxDataAge + 1]}

EligibilityOptions ==
    {[padSize |-> {}, blackMarket |-> FALSE, maxLs |-> 0, maxAge |-> 0],
     [padSize |-> {"L"}, blackMarket |-> TRUE, maxLs |-> MaxLsFromStar,
      maxAge |-> MaxDataAge]}

ValidateInit ==
    /\ vDb \in {db \in [Stations -> StationProfiles] :
                    /\ db["c"] \in {GoodStation,
                                     [GoodStation EXCEPT !.blackMarket = "N"]}
                    /\ db["d"] = GoodStation}
    /\ \E opt \in EligibilityOptions,
          orig \in Places \cup {NoPlace}, dest \in Places \cup {NoPlace},
          sj \in 0..MaxRadius, ej \in 0..MaxRadius,
          avoid \in {{}, {"b"}, {"S2"}} :
            vEnv = [BaseEnv EXCEPT
                        !.padSize = opt.padSize,
                        !.blackMarket = opt.blackMarket,
                        !.maxLs = opt.maxLs,
                        !.maxAge = opt.maxAge,
                        !.origPlace = orig,
                        !.destPlace = dest,
                        !.startJumps = sj,
                        !.endJumps = ej,
                        !.avoidPlaces = avoid]
    /\ vPc = "call"
    /\ vRes = NoResult
    /\ SuitIdle
    /\ ExpIdle
    /\ ViaIdle
    /\ RunIdle

\* One call of validateRunArguments.
Validate ==
    /\ vPc = "call"
    /\ vRes' = validateRunArguments(vDb, vEnv)
    /\ vPc' = "done"
    /\ UNCHANGED <<vDb, vEnv>>
    /\ UNCHANGED <<suitVars, expVars, viaVars, runVars>>

ValidateNext == Validate

SpecValidate == ValidateInit /\ [][ValidateNext]_vars

(***************************************************************************)
(* Specification SpecArgs: validateRunArguments on a database of eligible  *)
(* stations, over the hops, the anchors, the via list and the prune        *)
(* options of the command line.                                            *)
(***************************************************************************)
\* --via as the parser hands it over: a list of places, a set once line
\* 582 has run.
ViaPlaceLists == {via \in SUBSET Places : Cardinality(via) <= MaxVia}

\* --prune-score, a percentage, below, inside and above its range.
PruneScoreOptions == {-50, 0, 50, 100, 101}

\* --prune-hops, from below its range to its default.
PruneHopsOptions == -1..3

ArgsInit ==
    /\ vDb = [stn \in Stations |-> GoodStation]
    /\ \E hops \in 1..(MaxHops + 1),
          orig \in {NoPlace, "a", "S1"},
          dest \in {NoPlace, "b", "c", "S1", "S2"},
          via \in ViaPlaceLists,
          ps \in PruneScoreOptions, ph \in PruneHopsOptions :
            vEnv = [BaseEnv EXCEPT
                        !.hops = hops,
                        !.origPlace = orig,
                        !.destPlace = dest,
                        !.viaPlaces = via,
                        !.pruneScores = ps,
                        !.pruneHops = ph]
    /\ vPc = "call"
    /\ vRes = NoResult
    /\ SuitIdle
    /\ ExpIdle
    /\ ViaIdle
    /\ RunIdle

SpecArgs == ArgsInit /\ [][ValidateNext]_vars

(***************************************************************************)
(* Specification SpecVia: filterByVia on lists of routes of one length     *)
(* over the stations a, b and c, with via sets over every place.           *)
(***************************************************************************)
\* The stations of a route of n places: no hop leads to the station it
\* starts from.
StationPaths(n) ==
    {path \in [1..n -> {"a", "b", "c"}] :
        \A i \in 1..(n - 1) : path[i] # path[i + 1]}

ViaRouteLists ==
    UNION {UNION {[1..k -> {[route |-> path, score |-> 1] : path \in StationPaths(n)}] :
                    k \in 1..MaxViaRoutes} :
            n \in 2..MaxViaPlaces}

ViaSets == {via \in SUBSET Places : via # {} /\ Cardinality(via) <= MaxVia}

ViaInit ==
    /\ fRoutes \in ViaRouteLists
    /\ fViaSet \in ViaSets
    /\ fStartPos \in {0, 1}
    /\ fPc = "call"
    /\ fRes = [err |-> "", routes |-> <<>>, caution |-> NoCaution]
    /\ SuitIdle
    /\ ExpIdle
    /\ ValIdle
    /\ RunIdle

\* One call of filterByVia.
FilterByVia ==
    /\ fPc = "call"
    /\ fRes' = filterByVia(fRoutes, fViaSet, fStartPos)
    /\ fPc' = "done"
    /\ UNCHANGED <<fRoutes, fViaSet, fStartPos>>
    /\ UNCHANGED <<suitVars, expVars, valVars, runVars>>

ViaNext == FilterByVia

SpecVia == ViaInit /\ [][ViaNext]_vars

(***************************************************************************)
(* Specification SpecRun: run(), from the validation of its arguments to   *)
(* results.data, one step of the hop loop at a time.  Every station of the *)
(* database passes every eligibility check.                                *)
(***************************************************************************)
\* --to a place, --towards a place, or neither.
RunTargets ==
    {[destPlace |-> NoPlace, goalSystem |-> NoPlace],
     [destPlace |-> "c", goalSystem |-> NoPlace],
     [destPlace |-> "S1", goalSystem |-> NoPlace],
     [destPlace |-> NoPlace, goalSystem |-> "S2"]}

RunEnvs ==
    {[BaseEnv EXCEPT
            !.origPlace = orig,
            !.destPlace = target.destPlace,
            !.goalSystem = target.goalSystem,
            !.viaPlaces = via,
            !.avoidPlaces = avoid,
            !.maxRoutes = maxRoutes,
            !.hops = hops,
            !.pruneScores = 50,
            !.pruneHops = 2] :
        orig \in {"a", "S1"},
        target \in RunTargets,
        via \in {{}, {"b"}, {"S2", "d"}, {"S1", "d"}},
        avoid \in {{}, {"S1"}},
        maxRoutes \in {-1, 0, 1},
        hops \in 1..MaxHops}

RunInit ==
    /\ rDb = [stn \in Stations |-> GoodStation]
    /\ rEnv \in RunEnvs
    /\ rCfg = NoResult
    /\ rPc = "start"
    /\ routes = <<>>
    /\ hopNo = 0
    /\ restrictTo = {}
    /\ exception = <<>>
    /\ data = <<>>
    /\ rErr = ""
    /\ before = <<>>
    /\ expansions = 0
    /\ stop = ""
    /\ SuitIdle
    /\ ExpIdle
    /\ ValIdle
    /\ ViaIdle

\* Lines 727-762: the trade count, the validation, the seeding.
RunStart ==
    /\ rPc = "start"
    /\ LET v == validateRunArguments(rDb, rEnv)
       IN  IF TradingCount = 0
           THEN /\ rErr' = "NoDataError"
                /\ rPc' = "raised"
                /\ UNCHANGED <<rCfg, routes>>
           ELSE IF v.err # ""
           THEN /\ rErr' = v.err
                /\ rPc' = "raised"
                /\ UNCHANGED <<rCfg, routes>>
           ELSE /\ rCfg' = v
                /\ routes' = SeedRoutes(rDb, rEnv, v.origins)
                /\ rPc' = "prune"
                /\ UNCHANGED rErr
    /\ UNCHANGED <<rDb, rEnv, hopNo, restrictTo, exception, data, before,
                   expansions, stop>>
    /\ UNCHANGED <<suitVars, expVars, valVars, viaVars>>

\* Lines 765-781: restrictTo and the two cuts of one hop.
HopPrune ==
    /\ rPc = "prune"
    /\ before' = routes
    /\ restrictTo' = RestrictTo(hopNo, rEnv.hops, rCfg.destinations,
                                rCfg.viaSet, rCfg.adhocHops)
    /\ LET cut == TopNCut(routes, rEnv.maxRoutes, hopNo)
           pruned == Prune(routes, rCfg, rEnv.maxRoutes, hopNo)
       IN  IF /\ ScoreCutApplies(cut, rCfg.pruneScores, rCfg.pruneHops, hopNo)
              /\ pruned = <<>>
           THEN /\ rErr' = "IndexError"
                /\ rPc' = "raised"
                /\ routes' = pruned
           ELSE /\ routes' = pruned
                /\ rPc' = "expand"
                /\ UNCHANGED rErr
    /\ UNCHANGED <<rDb, rEnv, rCfg, hopNo, exception, data, expansions, stop>>
    /\ UNCHANGED <<suitVars, expVars, valVars, viaVars>>

\* Lines 805-816: the message of a hop that found no route.
NoRouteMessage ==
    IF restrictTo # {}
    THEN <<"SORRY: Could not find any routes that delivered a profit to",
           restrictTo, "at hop", hopNo + 1>>
    ELSE <<"SORRY: Could not find routes beyond hop", hopNo + 1>>

\* Lines 788-826: the expansion of one hop and what the loop does with it.
HopExpand ==
    /\ rPc = "expand"
    /\ \E newRoutes \in getBestHops(routes, restrictTo) :
        /\ expansions' = expansions + 1
        /\ IF newRoutes = <<>> /\ hopNo > 0
           THEN /\ exception' = Append(exception, NoRouteMessage)
                /\ rPc' = "finish"
                /\ stop' = "no route"
                /\ UNCHANGED <<routes, hopNo>>
           ELSE LET sorted ==
                        IF newRoutes # <<>> /\ rCfg.goalSystem # NoPlace
                        THEN GoalSort(newRoutes, rCfg.goalSystem)
                        ELSE newRoutes
                IN  /\ routes' = sorted
                    /\ UNCHANGED exception
                    /\ IF /\ newRoutes # <<>>
                          /\ rCfg.goalSystem # NoPlace
                          /\ EndsInGoal(sorted[1], rCfg.goalSystem)
                       THEN /\ rPc' = "finish"
                            /\ stop' = "goal"
                            /\ UNCHANGED hopNo
                       ELSE IF hopNo + 1 < rEnv.hops
                       THEN /\ rPc' = "prune"
                            /\ hopNo' = hopNo + 1
                            /\ UNCHANGED stop
                       ELSE /\ rPc' = "finish"
                            /\ stop' = "hops done"
                            /\ UNCHANGED hopNo
    /\ UNCHANGED <<rDb, rEnv, rCfg, restrictTo, data, rErr, before>>
    /\ UNCHANGED <<suitVars, expVars, valVars, viaVars>>

\* Lines 828-842: the empty result, the via filter, the final sort.
RunFinish ==
    /\ rPc = "finish"
    /\ LET f == filterByVia(routes, rCfg.viaSet, ViaStartPos(rEnv))
       IN  IF routes = <<>>
           THEN /\ rErr' = "NoDataError"
                /\ rPc' = "raised"
                /\ UNCHANGED <<routes, exception, data>>
           ELSE IF rCfg.viaSet = {}
           THEN /\ routes' = SortByRank(routes)
                /\ data' = SortByRank(routes)
                /\ rPc' = "done"
                /\ UNCHANGED <<rErr, exception>>
           ELSE IF f.err # ""
           THEN /\ rErr' = f.err
                /\ rPc' = "raised"
                /\ UNCHANGED <<routes, exception, data>>
           ELSE /\ routes' = SortByRank(f.routes)
                /\ data' = SortByRank(f.routes)
                /\ exception' = IF f.caution # NoCaution
                                THEN Append(exception, f.caution)
                                ELSE exception
                /\ rPc' = "done"
                /\ UNCHANGED rErr
    /\ UNCHANGED <<rDb, rEnv, rCfg, hopNo, restrictTo, before, expansions, stop>>
    /\ UNCHANGED <<suitVars, expVars, valVars, viaVars>>

RunNext == RunStart \/ HopPrune \/ HopExpand \/ RunFinish

SpecRun == RunInit /\ [][RunNext]_vars

(***************************************************************************)
(* Specification SpecCut: the pruning step of one hop (lines 765-781) on   *)
(* candidate lists around the minimum of the score-ratio cut, as a hop of  *)
(* a longer run leaves them.                                               *)
(***************************************************************************)
\* A candidate of hopNo hops from a, with the score the trade data give it.
Candidate(hops, score) ==
    LET path == [k \in 1..(hops + 1) |-> IF k % 2 = 1 THEN "a" ELSE "b"]
        legs == [k \in 1..hops |-> <<path[k], path[k + 1]>>]
    IN  [route |-> path, hops |-> legs, jumps |-> legs, score |-> score]

\* Lists of PruneMinRoutes - 1 to PruneMinRoutes - 1 + MaxExtra candidates,
\* in the order getBestHops left them: no particular one.
CandidateLists(hops) ==
    {[i \in 1..(PruneMinRoutes - 1) |-> Candidate(hops, i % (MaxScore + 1))]
            \o [i \in 1..Len(tail) |-> Candidate(hops, tail[i])] :
        tail \in UNION {[1..n -> 0..MaxScore] : n \in 0..MaxExtra}}

CutEnvs ==
    {[BaseEnv EXCEPT
            !.origPlace = "a",
            !.hops = MaxHops + 1,
            !.pruneScores = ps,
            !.pruneHops = ph] :
        ps \in {0, 50, 100}, ph \in {2, 3}}

CutInit ==
    /\ rDb = [stn \in Stations |-> GoodStation]
    /\ rEnv \in CutEnvs
    /\ rCfg = validateRunArguments(rDb, rEnv)
    /\ rPc = "prune"
    /\ hopNo \in 1..MaxHops
    /\ routes \in CandidateLists(hopNo)
    /\ restrictTo = {}
    /\ exception = <<>>
    /\ data = <<>>
    /\ rErr = ""
    /\ before = <<>>
    /\ expansions = hopNo
    /\ stop = ""
    /\ SuitIdle
    /\ ExpIdle
    /\ ValIdle
    /\ ViaIdle

CutNext == HopPrune

SpecCut == CutInit /\ [][CutNext]_vars

(***************************************************************************)
(* Properties of the station eligibility check and of validation.          *)
(***************************************************************************)
ValidationDone == vPc = "done"

ValidationOk == vPc = "done" /\ vRes.err = ""

FromStation == IsStation(vEnv.origPlace)

ToStation == IsStation(vEnv.destPlace)

\* The checks a station fails, by the letter the design gives each.
FailsItems(env, stn) == stn.itemCount = 0

FailsPad(env, stn) == env.padSize # {} /\ stn.maxPadSize \notin env.padSize

FailsBlackMarket(env, stn) == env.blackMarket /\ stn.blackMarket # "Y"

FailsLs(env, stn) ==
    env.maxLs # 0 /\ ~(0 < stn.lsFromStar /\ stn.lsFromStar <= env.maxLs)

FailsAge(env, stn) == env.maxAge # 0 /\ ~(stn.dataAge <= env.maxAge)

FailsSomeCheck(env, stn) ==
    \/ FailsItems(env, stn)
    \/ FailsPad(env, stn)
    \/ FailsBlackMarket(env, stn)
    \/ FailsLs(env, stn)
    \/ FailsAge(env, stn)

\* C7 as stated: an explicitly named --from or --to station that fails any
\* one of the eligibility checks makes validation raise.
C7_StrictRaisesForFromAndTo ==
    ValidationDone =>
        /\ (FromStation /\ FailsSomeCheck(vEnv, vDb[vEnv.origPlace]))
                => vRes.err # ""
        /\ (ToStation /\ FailsSomeCheck(vEnv, vDb[vEnv.destPlace]))
                => vRes.err # ""

\* C7 as amended: validation raises for an explicitly named --to station
\* that fails any one of the eligibility checks and for an explicitly named
\* --from station that has no priced commodity or fails the pad size; a
\* station of either kind is the origin or the destination of no search.
C7_StrictRaises ==
    ValidationDone =>
        /\ (ToStation /\ FailsSomeCheck(vEnv, vDb[vEnv.destPlace]))
                => vRes.err # ""
        /\ (FromStation /\ (\/ FailsItems(vEnv, vDb[vEnv.origPlace])
                            \/ FailsPad(vEnv, vDb[vEnv.origPlace])))
                => vRes.err # ""

\* A --to station that fails only the data-age check was rejected.
C7_Witness ==
    /\ ValidationDone
    /\ ToStation
    /\ FailsAge(vEnv, vDb[vEnv.destPlace])
    /\ ~FailsItems(vEnv, vDb[vEnv.destPlace])
    /\ vEnv.origPlace # NoPlace
    /\ vRes.err = "CommandLineError"

\* C8: after a successful validation every origin and every destination
\* that came from a system, from the whole database or from a jump-radius
\* expansion passes the non-strict eligibility check.
C8_DerivedStationsEligible ==
    ValidationOk =>
        /\ (~FromStation \/ vEnv.startJumps # 0)
                => \A stn \in vRes.origins : Suitable(vEnv, vDb[stn])
        /\ (vEnv.destPlace # NoPlace /\ (~ToStation \/ vEnv.endJumps # 0))
                => \A stn \in vRes.destinations : Suitable(vEnv, vDb[stn])

\* C9: the non-strict call returns True or False, never raises, and returns
\* True exactly when none of the five checks fails.
C9_NonStrictIsConjunction ==
    (sRes \notin {"idle", "pending"} /\ sSrc = NoPlace) =>
        /\ sRes \in {"True", "False"}
        /\ (sRes = "True") <=>
                /\ sStation.itemCount # 0
                /\ (sEnv.padSize = {} \/ sStation.maxPadSize \in sEnv.padSize)
                /\ (~sEnv.blackMarket \/ sStation.blackMarket = "Y")
                /\ (sEnv.maxLs = 0
                        \/ (0 < sStation.lsFromStar
                                /\ sStation.lsFromStar <= sEnv.maxLs))
                /\ (sEnv.maxAge = 0 \/ sStation.dataAge <= sEnv.maxAge)

\* A station with an unset distance from its star, every other check
\* passing, was found unsuitable without a raise.
C9_Witness ==
    /\ sRes = "False"
    /\ sSrc = NoPlace
    /\ sEnv.maxLs # 0
    /\ sStation.lsFromStar = 0
    /\ ~FailsItems(sEnv, sStation)
    /\ ~FailsPad(sEnv, sStation)
    /\ ~FailsBlackMarket(sEnv, sStation)
    /\ ~FailsAge(sEnv, sStation)

(***************************************************************************)
(* Properties of the ring expansion.                                       *)
(***************************************************************************)
\* The systems within n jumps of start, each jump landing on a system that
\* is not avoided.
RECURSIVE ReachWithin(_, _, _)
ReachWithin(start, n, env) ==
    IF n = 0
    THEN start
    ELSE LET near == ReachWithin(start, n - 1, env)
         IN  near \cup {dest \in Systems :
                            /\ dest \notin env.avoidPlaces
                            /\ \E sys \in near :
                                    Dist(sys, dest) <= ChosenLy(env)}

\* C10: with jumps = N > 0 the expansion collects exactly the systems
\* within N jumps of the origin systems through systems that are not
\* avoided, puts no system in a frontier and lists no system's neighbours
\* more than once, and ends when the frontier is empty or N rings are done.
C10_RingExpansion ==
    /\ (ePc \in {"loop", "done"} /\ eJumps > 0) =>
            /\ origSys = ReachWithin(OriginSystems(eOrigins), jump, eEnv)
            /\ \A sys \in Systems : placed[sys] <= 1 /\ enumerated[sys] <= 1
            /\ jump <= eJumps
    /\ (ePc = "done" /\ eJumps > 0) =>
            /\ origSys = ReachWithin(OriginSystems(eOrigins), eJumps, eEnv)
            /\ (jump = eJumps \/ nextJump = {})
            /\ \A sys \in origSys : placed[sys] = 1

\* Two rings were processed, three systems or more were collected, and an
\* avoided system in range of a collected one was left out.
C10_Witness ==
    /\ ePc = "done"
    /\ jump >= 2
    /\ Cardinality(origSys) >= 3
    /\ \E sys \in origSys, dest \in Systems \ origSys :
            /\ dest \in eEnv.avoidPlaces
            /\ Dist(sys, dest) <= ChosenLy(eEnv)

(***************************************************************************)
(* Properties of the via filter.                                           *)
(***************************************************************************)
\* A via entry is visited by a route when, from viaStartPos on, the route
\* holds it (a station) or one of its stations (a system).
VisitsEntry(route, entry, viaStartPos) ==
    \E i \in (viaStartPos + 1)..Len(route.route) :
        IF IsSystem(entry)
        THEN SystemOf(route.route[i]) = entry
        ELSE route.route[i] = entry

VisitsAll(route, viaSet, viaStartPos) ==
    \A entry \in viaSet : VisitsEntry(route, entry, viaStartPos)

\* The number of via entries a route visits.
Coverage(route, viaSet, viaStartPos) ==
    Cardinality({entry \in viaSet : VisitsEntry(route, entry, viaStartPos)})

FullyVisiting(r) == VisitsAll(r, fViaSet, fStartPos)

MaxCoverage ==
    CHOOSE n \in 0..Cardinality(fViaSet) :
        /\ \E i \in 1..Len(fRoutes) : Coverage(fRoutes[i], fViaSet, fStartPos) = n
        /\ \A i \in 1..Len(fRoutes) : Coverage(fRoutes[i], fViaSet, fStartPos) <= n

BestCovering(r) == Coverage(r, fViaSet, fStartPos) = MaxCoverage

\* C1: when some route visits every via entry, exactly the routes that
\* visit every via entry are returned.
C1_FullMatchKeepsExactlyVisitors ==
    (fPc = "done" /\ \E i \in 1..Len(fRoutes) : FullyVisiting(fRoutes[i])) =>
        /\ fRes.err = ""
        /\ fRes.routes = SelectSeq(fRoutes, FullyVisiting)

\* C2: when no route visits every via entry and some route visits one, the
\* routes returned are exactly those of the maximum match count, and the
\* caution is given and names that count.
C2_PartialMatchKeepsMaximum ==
    (/\ fPc = "done"
     /\ \A i \in 1..Len(fRoutes) : ~FullyVisiting(fRoutes[i])
     /\ MaxCoverage >= 1) =>
        /\ fRes.err = ""
        /\ fRes.routes = SelectSeq(fRoutes, BestCovering)
        /\ fRes.caution # NoCaution
        /\ fRes.caution = ViaCaution(MaxCoverage)

(***************************************************************************)
(* Properties of the hop loop.                                             *)
(***************************************************************************)
\* The candidates have been pruned and are about to be expanded.
Pruned == rPc = "expand"

GoalSet == rCfg.goalSystem # NoPlace

LoopEnded == rPc \in {"finish", "done", "raised"} /\ stop # ""

\* C3: the pruning of a hop adds no candidate, keeps the candidate that
\* ranks first and leaves a candidate when there was one.
C3_PruningKeepsBest ==
    Pruned =>
        /\ Len(routes) <= Len(before)
        /\ before # <<>> =>
                /\ routes # <<>>
                /\ SortByRank(before)[1] \in Range(routes)

\* C4: the candidates are rank-sorted when the top-N cut is applied to
\* them.
C4_SortedAtTopNCut ==
    (Pruned /\ rEnv.maxRoutes # 0 /\ hopNo >= 1) => IsRankSorted(before)

\* C5: with a goal system, the loop goes on to another hop only with
\* candidates that all end outside the goal system; it ends on the goal
\* only with a first candidate that ends in the goal system, at the hop
\* that produced it, and nothing is expanded afterwards; and it ends
\* before the configured hops are done only on the goal or for want of
\* routes.
C5_GoalEarlyExit ==
    /\ (rPc \in {"prune", "expand"} /\ expansions > 0 /\ GoalSet) =>
            \A i \in 1..Len(routes) : ~EndsInGoal(routes[i], rCfg.goalSystem)
    /\ (rPc = "finish" /\ stop = "goal") =>
            /\ GoalSet
            /\ routes # <<>>
            /\ EndsInGoal(routes[1], rCfg.goalSystem)
            /\ \A i \in 1..Len(routes) : Len(routes[i].route) = hopNo + 2
    /\ LoopEnded => expansions = hopNo + 1
    /\ (LoopEnded /\ stop = "hops done") => hopNo + 1 = rEnv.hops
    /\ (LoopEnded /\ hopNo + 1 < rEnv.hops) => stop \in {"goal", "no route"}
    /\ (LoopEnded /\ stop = "goal") => GoalSet

\* The loop ended on the goal one hop early, with a candidate that ends
\* elsewhere behind the one in the goal system.
C5_Witness ==
    /\ rPc = "finish"
    /\ stop = "goal"
    /\ hopNo + 1 < rEnv.hops
    /\ Len(routes) >= 2
    /\ EndsInGoal(routes[1], rCfg.goalSystem)
    /\ ~EndsInGoal(routes[2], rCfg.goalSystem)

\* C6: with --to, the last hop is expanded towards the destinations and
\* nothing else, and every route returned with the configured number of
\* hops ends at a destination.
C6_LastHopToDestinations ==
    /\ (Pruned /\ rEnv.destPlace # NoPlace /\ hopNo = rEnv.hops - 1) =>
            /\ rCfg.destinations # {}
            /\ restrictTo = rCfg.destinations
    /\ (rPc = "done" /\ rEnv.destPlace # NoPlace) =>
            \A i \in 1..Len(data) :
                Len(data[i].route) = rEnv.hops + 1
                    => Last(data[i].route) \in rCfg.destinations

\* A route of two hops was returned to a --to station, the via set having
\* restricted the first hop.
C6_Witness ==
    /\ rPc = "done"
    /\ rEnv.destPlace # NoPlace
    /\ Cardinality(rCfg.viaSet) > rCfg.adhocHops
    /\ rCfg.viaSet # {}
    /\ rEnv.hops >= 2
    /\ data # <<>>
    /\ Len(data[1].route) = rEnv.hops + 1

(***************************************************************************)
(* Properties of the avoid list in the expansion.                          *)
(***************************************************************************)
\* C11: no station returned by expandForJumps is in the avoid set or in a
\* system of the avoid set, whatever the origins and the number of jumps.
C11_ExpansionExcludesAvoided ==
    ePc = "done" =>
        \A stn \in eResult :
            /\ stn \notin eEnv.avoidPlaces
            /\ SystemOf(stn) \notin eEnv.avoidPlaces

(***************************************************************************)
(* Properties of the validation of the via list and the prune options.     *)
(***************************************************************************)
\* C12: when validation succeeds the via set has no more entries than the
\* route has positions left free by --from and --to.
C12_ViaFitsFreePositions ==
    ValidationOk =>
        Cardinality(vRes.viaSet) <= (vEnv.hops + 1) - FixedRoutePoints(vEnv)

\* The explicitly named --from or --to place is an entry of the via set.
AnchorInVia ==
    \/ vEnv.origPlace # NoPlace /\ vEnv.origPlace \in vEnv.viaPlaces
    \/ vEnv.destPlace # NoPlace /\ vEnv.destPlace \in vEnv.viaPlaces

\* The first error of the checks other than the one of the anchors.
ErrorButAnchor(db, env) ==
    LET org == ValidateOrigins(db, env)
        dst == ValidateDestinations(db, env)
    IN  FirstError(<<
            ScalarChecks(env), org.err, dst.err, SameToFrom(env, org, dst),
            ViaPriceData(db, env.viaPlaces),
            ViaAvoidConflict(env, env.viaPlaces),
            ViaCount(env, env.viaPlaces), CargoChecks(env),
            UniqueChecks(env, org, dst, env.viaPlaces), PruneChecks(env)>>)

\* C13: with two hops, validation raises a configuration error when the
\* named --from or --to place, station or system, is an entry of the via
\* set; with another number of hops the coincidence raises nothing, the
\* outcome being that of the other checks.
C13_AnchorNotInViaAtTwoHops ==
    (ValidationDone /\ AnchorInVia) =>
        IF vEnv.hops = 2
        THEN vRes.err = "CommandLineError"
        ELSE vRes.err = ErrorButAnchor(vDb, vEnv)

(***************************************************************************)
(* Properties of the result of run().                                      *)
(***************************************************************************)
\* A returned route calls at every entry of the via set.
DataVisitsVia(i) == VisitsAll(data[i], rCfg.viaSet, ViaStartPos(rEnv))

\* C14: when run returns after the loop was abandoned for want of routes,
\* or with a route that misses an entry of the via set, summary.exception
\* is not empty; it is empty when every hop was done and every route
\* returned calls at every via entry.
C14_WeakerResultIsFlagged ==
    rPc = "done" =>
        /\ (stop = "no route" \/ \E i \in 1..Len(data) : ~DataVisitsVia(i))
                => exception # <<>>
        /\ (stop = "hops done" /\ \A i \in 1..Len(data) : DataVisitsVia(i))
                => exception = <<>>

\* The validation passed and the seeding of lines 741-747 left no route.
EmptySeed ==
    /\ rCfg # NoResult
    /\ SeedRoutes(rDb, rEnv, rCfg.origins) = <<>>

\* C15: when no origin is left to seed a route, getBestHops is never
\* called and run ends in a data error, whatever the number of hops.
C15_EmptySeedNoSearch ==
    EmptySeed =>
        /\ expansions = 0
        /\ rPc # "done"
        /\ rPc = "raised" => rErr = "NoDataError"

\* len(places) == len(hops) + 1 == len(jumps) + 1.
RouteShape(r) ==
    /\ Len(r.route) = Len(r.hops) + 1
    /\ Len(r.hops) = Len(r.jumps)

\* The expansions whose result became the candidate list: every call of
\* getBestHops but the one the loop was abandoned on.
AcceptedExpansions == IF stop = "no route" THEN expansions - 1 ELSE expansions

\* C16: every candidate keeps the shape of a route and has as many hops as
\* expansions were accepted, so that all candidates have the same length;
\* the routes returned have the same number of hops, between one and the
\* configured number.
C16_RouteShape ==
    /\ \A i \in 1..Len(routes) :
            /\ RouteShape(routes[i])
            /\ Len(routes[i].hops) = AcceptedExpansions
    /\ rPc = "done" =>
            \A i \in 1..Len(data) :
                /\ RouteShape(data[i])
                /\ Len(data[i].hops) >= 1
                /\ Len(data[i].hops) <= rEnv.hops
                /\ Len(data[i].hops) = Len(data[1].hops)

\* Two routes were returned after the loop was abandoned on its last hop.
C16_Witness ==
    /\ rPc = "done"
    /\ stop = "no route"
    /\ Len(data) >= 2
    /\ Len(data[1].hops) = rEnv.hops - 1

(***************************************************************************)
(* Properties of the score-ratio cut.                                      *)
(***************************************************************************)
\* The conditions of the cut, on the list the step was given.
CutConfigured ==
    /\ rCfg.pruneScores # 0
    /\ hopNo + 1 >= rCfg.pruneHops
    /\ Len(before) > PruneMinRoutes

\* The score of the best-ranked candidate of a list.
BestScore(list) ==
    CHOOSE best \in {list[i].score : i \in 1..Len(list)} :
        \A i \in 1..Len(list) : list[i].score <= best

AboveThreshold(r) == r.score * 100 >= BestScore(before) * rCfg.pruneScores

\* How often a route is in a list.
Count(list, r) == Cardinality({i \in 1..Len(list) : list[i] = r})

\* C17: the pruning step cuts by score exactly when a percentage is set,
\* hopNo + 1 >= pruneHops and more than 10 candidates are listed; it then
\* keeps exactly the candidates at or above bestScore * pruneScores / 100,
\* in rank order, and otherwise leaves the list as it was.
C17_ScoreRatioCut ==
    /\ (rPc = "raised" /\ before # <<>>) => rErr # "IndexError"
    /\ Pruned =>
        IF CutConfigured
        THEN /\ IsRankSorted(routes)
             /\ \A r \in Range(before) \cup Range(routes) :
                    Count(routes, r) = IF AboveThreshold(r)
                                       THEN Count(before, r)
                                       ELSE 0
        ELSE routes = before

\* The cut removed some of twelve unsorted candidates and kept several.
C17_Witness ==
    /\ Pruned
    /\ CutConfigured
    /\ ~IsRankSorted(before)
    /\ Len(routes) < Len(before)
    /\ Len(routes) >= 2
    /\ \E i \in 1..Len(routes) : routes[i].score < BestScore(before)

\* C18: when validation succeeds, score pruning is either off, with
\* pruneScores and pruneHops both 0, or on with a percentage in 1..100 and
\* a first hop of 2 or more.
C18_PruneOptionsValid ==
    ValidationOk =>
        \/ vRes.pruneScores = 0 /\ vRes.pruneHops = 0
        \/ /\ vRes.pruneScores > 0
           /\ vRes.pruneScores <= 100
           /\ vRes.pruneHops >= 2

\* C19: when the loop stopped on the goal system, the first route of
\* results.data ends at a station of the goal system.
C19_GoalRouteFirst ==
    (rPc = "done" /\ stop = "goal") =>
        /\ data # <<>>
        /\ EndsInGoal(data[1], rCfg.goalSystem)

====
